---- MODULE Spec2Model ----
(***************************************************************************)
(* Model of project.py: the payslip batch script.  The script reads the    *)
(* mail settings from the environment, loads and normalizes the employee   *)
(* table, and then, for every row, renders a payslip, writes it under      *)
(* payslips/ and mails it when the row has an e-mail address.              *)
(*                                                                         *)
(* Text is a sequence of atoms.  A blank, an underscore, a minus sign, a   *)
(* dot and every digit are atoms of their own, because the code inspects   *)
(* them (str.strip, str.replace, to_numeric, the .2f format); a run of     *)
(* other characters is one atom.                                           *)
(*                                                                         *)
(* A spreadsheet cell is [k, n, s]: k = "num" with the number n,           *)
(* k = "str" with the text s, or k = "nan" for an empty cell.  Amounts are *)
(* whole currency units.                                                   *)
(***************************************************************************)
EXTENDS Integers, Sequences, FiniteSets, TLC

\* Largest number of rows of an input table.
MaxRows == 2

VARIABLES environ, xlsx, pc, config, employee_data, disk, index,
          net_salary, filepath, trace

vars == <<environ, xlsx, pc, config, employee_data, disk, index,
          net_salary, filepath, trace>>

----------------------------------------------------------------------------
(* Cells and text *)

Num(v) == [k |-> "num", n |-> v, s |-> <<>>]
Str(t) == [k |-> "str", n |-> 0, s |-> t]
NaN == [k |-> "nan", n |-> 0, s |-> <<>>]

Digits == <<"0", "1", "2", "3", "4", "5", "6", "7", "8", "9">>

IsDigit(a) == \E d \in 1..10 : Digits[d] = a

DigitValue(a) == (CHOOSE d \in 1..10 : Digits[d] = a) - 1

IsSpace(a) == a = " "

\* str.lstrip / str.rstrip / str.strip
RECURSIVE LStrip(_)
LStrip(t) == IF t # <<>> /\ IsSpace(Head(t)) THEN LStrip(Tail(t)) ELSE t

RECURSIVE RStrip(_)
RStrip(t) ==
    IF t # <<>> /\ IsSpace(t[Len(t)]) THEN RStrip(SubSeq(t, 1, Len(t) - 1)) ELSE t

Strip(t) == RStrip(LStrip(t))

\* str.replace(old, new) for one-atom old and new
Replace(t, old, new) == [p \in 1..Len(t) |-> IF t[p] = old THEN new ELSE t[p]]

\* decimal digits of a natural number
RECURSIVE NatText(_)
NatText(v) ==
    IF v < 10 THEN <<Digits[v + 1]>> ELSE NatText(v \div 10) \o <<Digits[(v % 10) + 1]>>

\* str(number) for a whole number
IntText(v) == IF v < 0 THEN <<"-">> \o NatText(0 - v) ELSE NatText(v)

\* the format f"{v:.2f}" of a whole amount
Format2f(v) == IntText(v) \o <<".", "0", "0">>

\* str(cell), as an f-string prints a cell
CellText(c) ==
    IF c.k = "num" THEN IntText(c.n) ELSE IF c.k = "str" THEN c.s ELSE <<"nan">>

RECURSIVE DigitsValue(_)
DigitsValue(t) ==
    IF t = <<>> THEN 0 ELSE 10 * DigitsValue(SubSeq(t, 1, Len(t) - 1)) + DigitValue(t[Len(t)])

AllDigits(t) == t # <<>> /\ \A p \in 1..Len(t) : IsDigit(t[p])

\* pd.to_numeric(column, errors='coerce') on one cell: a number stays, text that
\* parses as a number becomes that number, anything else becomes NaN
ToNumeric(c) ==
    IF c.k = "num" THEN c
    ELSE IF c.k = "str" /\ AllDigits(Strip(c.s)) THEN Num(DigitsValue(Strip(c.s)))
    ELSE IF c.k = "str" /\ Strip(c.s) # <<>> /\ Head(Strip(c.s)) = "-"
            /\ AllDigits(Tail(Strip(c.s))) THEN Num(0 - DigitsValue(Tail(Strip(c.s))))
    ELSE NaN

\* fillna left out: an empty cell stays empty
FillNaNone(c) == c

\* Series.fillna(0) on one cell
FillNa0(c) == IF c.k = "nan" THEN Num(0) ELSE c

----------------------------------------------------------------------------
(* Column labels *)

ColEmployeeID == <<"Employee", " ", "ID">>
ColName == <<"Name">>
ColBasicSalary == <<"Basic", " ", "Salary">>
ColAllowance == <<"Allowance">>
ColDeductions == <<"Deductions">>
ColEmail == <<"Email">>

required_columns ==
    <<ColEmployeeID, ColName, ColBasicSalary, ColAllowance, ColDeductions, ColEmail>>

Required == {required_columns[p] : p \in 1..Len(required_columns)}

NumericColumns == {ColBasicSalary, ColAllowance, ColDeductions}

\* the rename mapping of line 21
RenameColumn(h) ==
    IF h = <<"Allawances">> THEN ColAllowance
    ELSE IF h = <<"Deduction">> THEN ColDeductions
    ELSE h

\* a frame is [n |-> number of rows, cols |-> [label -> column]]; the labels of
\* a frame are distinct, and the tables of the model keep them distinct under
\* strip and rename

\* employee_data.columns.str.strip()
StripColumns(df) ==
    [n |-> df.n,
     cols |-> [c \in {Strip(h) : h \in DOMAIN df.cols} |->
                 df.cols[CHOOSE h \in DOMAIN df.cols : Strip(h) = c]]]

\* employee_data.rename(columns=..., inplace=True)
RenameColumns(df) ==
    [n |-> df.n,
     cols |-> [c \in {RenameColumn(h) : h \in DOMAIN df.cols} |->
                 df.cols[CHOOSE h \in DOMAIN df.cols : RenameColumn(h) = c]]]

\* the value a missing required column is filled with (line 30)
DefaultCell(col) == IF col # ColEmail THEN Num(0) ELSE Str(<<>>)

\* the loop of lines 28-30
EnsureColumns(df) ==
    [n |-> df.n,
     cols |-> [c \in DOMAIN df.cols \cup Required |->
                 IF c \in DOMAIN df.cols THEN df.cols[c]
                 ELSE [p \in 1..df.n |-> DefaultCell(c)]]]

\* pd.to_numeric(..., errors='coerce').fillna(0) on one column
CoerceColumn(column) == [p \in 1..Len(column) |-> FillNa0(ToNumeric(column[p]))]

\* lines 33-35
CoerceNumeric(df) ==
    [n |-> df.n,
     cols |-> [c \in DOMAIN df.cols |->
                 IF c \in NumericColumns THEN CoerceColumn(df.cols[c]) ELSE df.cols[c]]]

\* lines 18-35 as a whole
Normalize(df) == CoerceNumeric(EnsureColumns(RenameColumns(StripColumns(df))))

\* the row that iterrows yields at a position
RowAt(df, p) == [c \in DOMAIN df.cols |-> df.cols[c][p]]

----------------------------------------------------------------------------
(* Inputs *)

Settings == {"SMTP_SERVER", "SMTP_PORT", "EMAIL_ADDRESS", "EMAIL_PASSWORD"}

Names == {<<"Ann", " ", "Lee">>, <<"Ann", "_", "Lee">>, <<"Bob">>}

\* the e-mail cell and the basic salary, allowance and deductions cells of a row,
\* as the spreadsheet holds them
PayChoices ==
    {[email |-> Str(<<" ", "bob@y.org", " ">>),
      amounts |-> <<Num(1000), Num(250), Str(<<"7", "5">>)>>],
     [email |-> Str(<<" ", " ">>),
      amounts |-> <<Str(<<"N/A">>), NaN, Num(300)>>],
     [email |-> NaN,
      amounts |-> <<Num(1000), Num(250), Str(<<"7", "5">>)>>]}

RowChoices ==
    {[name |-> nm, email |-> pay.email, amounts |-> pay.amounts] :
        nm \in Names, pay \in PayChoices}

RECURSIVE SeqsUpTo(_, _)
SeqsUpTo(S, len) ==
    IF len = 0 THEN {<<>>}
    ELSE LET shorter == SeqsUpTo(S, len - 1)
         IN  shorter \cup {Append(q, x) : q \in {r \in shorter : Len(r) = len - 1}, x \in S}

\* the cell of a row choice under a canonical column
SourceCell(choice, p, col) ==
    IF col = ColEmployeeID THEN Num(100 + p)
    ELSE IF col = ColName THEN Str(choice.name)
    ELSE IF col = ColBasicSalary THEN choice.amounts[1]
    ELSE IF col = ColAllowance THEN choice.amounts[2]
    ELSE IF col = ColDeductions THEN choice.amounts[3]
    ELSE choice.email

\* a table: heading[col] is the header the source uses for the column, <<>> when
\* the source has no such column
Table(rows, heading) ==
    [n |-> Len(rows),
     cols |-> [h \in {heading[c] : c \in Required} \ {<<>>} |->
                 LET col == CHOOSE c \in Required : heading[c] = h
                 IN  [p \in 1..Len(rows) |-> SourceCell(rows[p], p, col)]]]

CanonicalHeading == [c \in Required |-> c]

HeadingVariants(c) ==
    IF c = ColAllowance
        THEN {ColAllowance, <<" ", "Allowance", " ">>, <<"Allowances">>, <<"Allawances">>, <<>>}
    ELSE IF c = ColDeductions THEN {ColDeductions, <<"Deduction">>, <<>>}
    ELSE IF c = ColEmail THEN {ColEmail, <<>>}
    ELSE IF c = ColName THEN {ColName, <<>>}
    ELSE {c}

Headings == {f \in [Required -> UNION {HeadingVariants(c) : c \in Required}] :
                \A c \in Required : f[c] \in HeadingVariants(c)}

\* rows used with the varied headings
HeadingRows ==
    {[name |-> <<"Ann", " ", "Lee">>, email |-> Str(<<"ann@x.org">>),
      amounts |-> <<Num(1000), Num(250), Str(<<"7", "5">>)>>],
     [name |-> <<"Bob">>, email |-> NaN,
      amounts |-> <<Str(<<"N/A">>), Num(40), NaN>>]}

RowTables == {Table(rows, CanonicalHeading) : rows \in SeqsUpTo(RowChoices, MaxRows)}

HeadingTables ==
    {Table(rows, heading) : rows \in SeqsUpTo(HeadingRows, MaxRows) \ {<<>>},
                            heading \in Headings}

EmptyFrame == [n |-> 0, cols |-> <<>>]

----------------------------------------------------------------------------
(* State *)

\* The environment holds all four settings and employees.xlsx is any of the
\* tables above, or the environment lacks one setting and the table is one of
\* the small canonical ones.  Nothing has run yet: the globals are unset and
\* payslips/ does not exist.
Init ==
    /\ \/ environ = Settings /\ xlsx \in RowTables \cup HeadingTables
       \/ /\ environ \in {Settings \ {s} : s \in Settings}
          /\ xlsx \in {Table(rows, CanonicalHeading) : rows \in SeqsUpTo(HeadingRows, MaxRows)}
    /\ pc = "config"
    /\ config = [s \in Settings |-> FALSE]
    /\ employee_data = EmptyFrame
    /\ disk = [dir |-> FALSE, files |-> <<>>]
    /\ index = 1
    /\ net_salary = 0
    /\ filepath = <<>>
    /\ trace = <<>>

----------------------------------------------------------------------------
(* Start-up: lines 9-35 and 75-77 *)

\* lines 9-14: int(os.getenv('SMTP_PORT')) raises when the port is not set; the
\* other three settings are stored as they are, None included
LoadConfig ==
    /\ pc = "config"
    /\ IF "SMTP_PORT" \in environ
          THEN /\ config' = [s \in Settings |-> s \in environ]
               /\ pc' = "read"
          ELSE /\ config' = config
               /\ pc' = "crashed"
    /\ UNCHANGED <<environ, xlsx, employee_data, disk, index, net_salary, filepath, trace>>

\* line 17
ReadExcel ==
    /\ pc = "read"
    /\ employee_data' = xlsx
    /\ pc' = "strip"
    /\ UNCHANGED <<environ, xlsx, config, disk, index, net_salary, filepath, trace>>

\* line 18
StripHeaders ==
    /\ pc = "strip"
    /\ employee_data' = StripColumns(employee_data)
    /\ pc' = "rename"
    /\ UNCHANGED <<environ, xlsx, config, disk, index, net_salary, filepath, trace>>

\* lines 21-24
RenameHeaders ==
    /\ pc = "rename"
    /\ employee_data' = RenameColumns(employee_data)
    /\ pc' = "ensure"
    /\ UNCHANGED <<environ, xlsx, config, disk, index, net_salary, filepath, trace>>

\* lines 27-30
EnsureRequired ==
    /\ pc = "ensure"
    /\ employee_data' = EnsureColumns(employee_data)
    /\ pc' = "coerce"
    /\ UNCHANGED <<environ, xlsx, config, disk, index, net_salary, filepath, trace>>

\* lines 33-35
Coerce ==
    /\ pc = "coerce"
    /\ employee_data' = CoerceNumeric(employee_data)
    /\ pc' = "mkdir"
    /\ UNCHANGED <<environ, xlsx, config, disk, index, net_salary, filepath, trace>>

\* lines 76-77: os.makedirs(output_dir, exist_ok=True)
MakeOutputDir ==
    /\ pc = "mkdir"
    /\ disk' = [disk EXCEPT !.dir = TRUE]
    /\ pc' = "loop"
    /\ UNCHANGED <<environ, xlsx, config, employee_data, index, net_salary, filepath, trace>>

----------------------------------------------------------------------------
(* The loop: lines 80-135 *)

row == RowAt(employee_data, index)

output_dir == <<"payslips">>

\* the name used as it is, blanks kept
FileNameKeepBlanks(name) == name \o <<"_", "Payslip", ".", "pdf">>

\* line 113
FileName(name) == Replace(name, " ", "_") \o <<"_", "Payslip", ".", "pdf">>

\* line 114
FilePath(name) == output_dir \o <<"/">> \o FileName(name)

\* the net salary left over from the iteration before
NetSalaryStale(r) == net_salary

\* line 107
NetSalary(r) == r[ColBasicSalary].n + r[ColAllowance].n - r[ColDeductions].n

\* the text the cells of lines 92-110 put on the page
Payslip(r, net) ==
    [id |-> CellText(r[ColEmployeeID]),
     name |-> CellText(r[ColName]),
     basic |-> Format2f(r[ColBasicSalary].n),
     allowance |-> Format2f(r[ColAllowance].n),
     deductions |-> Format2f(r[ColDeductions].n),
     net |-> Format2f(net)]

\* line 82
ProgressLine(p, r) ==
    [ev |-> "progress", idx |-> p, name |-> CellText(r[ColName]),
     email |-> CellText(r[ColEmail])]

\* an error line that names the record but not its employee id
ErrorLineNoId(p, r) ==
    [ev |-> "error", idx |-> p, name |-> CellText(r[ColName]), id |-> <<>>]

\* line 135
ErrorLine(p, r) ==
    [ev |-> "error", idx |-> p, name |-> CellText(r[ColName]),
     id |-> CellText(r[ColEmployeeID])]

\* the test of line 118 without strip
HasEmailNoStrip(r) == r[ColEmail].k # "nan" /\ r[ColEmail].s # <<>>

\* line 118: pd.notna(row['Email']) and row['Email'].strip()
HasEmail(r) == r[ColEmail].k # "nan" /\ Strip(r[ColEmail].s) # <<>>

\* the statement at which rendering can raise: a cell() call of lines 84-104
\* (the renderer rejects the text), line 113 (Name is not text and has no
\* replace), or pdf.output of line 115
FailPoints(r) ==
    IF r[ColName].k = "str" THEN {"cell", "output"} ELSE {"cell", "replace"}

\* a loop that takes the same record again
NextIndexStay(p) == p

\* a loop that passes over a record
NextIndexSkip(p) == p + 2

\* the position the loop takes after an iteration
NextIndex(p) == p + 1

\* lines 82-115 run to the end: the page is written to filepath
RenderOk ==
    /\ pc = "loop"
    /\ index <= employee_data.n
    /\ row[ColName].k = "str"
    /\ disk.dir
    /\ net_salary' = NetSalary(row)
    /\ filepath' = FilePath(row[ColName].s)
    /\ disk' = [disk EXCEPT !.files =
                  [f \in DOMAIN disk.files \cup {filepath'} |->
                     IF f = filepath' THEN Payslip(row, net_salary') ELSE disk.files[f]]]
    /\ trace' = trace \o <<ProgressLine(index, row),
                           [ev |-> "output", idx |-> index, path |-> filepath',
                            doc |-> Payslip(row, net_salary')]>>
    /\ pc' = "email"
    /\ UNCHANGED <<environ, xlsx, config, employee_data, index>>

\* the exception an iteration raised, as the handler of line 134 receives it
Raised(p, where) == [ev |-> "raise", idx |-> p, at |-> where]

\* a handler around the rendering alone: the dispatch still runs
AfterRenderFailureDispatch == "email"

\* where control goes when rendering raised: the handler of lines 134-135 ends
\* the iteration, so the loop takes the next row
AfterRenderFailure == "loop"

\* lines 82-115 raise at `point`; the handler of lines 134-135 prints the error
\* line and the loop goes on.  The globals assigned before `point` keep their
\* new values, the others the values of an earlier iteration.  The exception
\* leaves the files of payslips/ as they were.
RenderFail(point) ==
    /\ pc = "loop"
    /\ index <= employee_data.n
    /\ point \in FailPoints(row)
    /\ net_salary' = IF point = "cell" THEN net_salary ELSE NetSalary(row)
    /\ filepath' = IF point = "output" THEN FilePath(row[ColName].s) ELSE filepath
    /\ trace' = trace \o <<ProgressLine(index, row), Raised(index, point),
                           ErrorLine(index, row)>>
    /\ pc' = AfterRenderFailure
    /\ index' = IF pc' = "loop" THEN NextIndex(index) ELSE index
    /\ UNCHANGED <<environ, xlsx, config, employee_data, disk>>

\* whether the row is handed to send_email (line 118)
Dispatches(r) == HasEmail(r)

\* line 118 is false: nothing is sent
DispatchSkip ==
    /\ pc = "email"
    /\ ~Dispatches(row)
    /\ index' = NextIndex(index)
    /\ pc' = "loop"
    /\ UNCHANGED <<environ, xlsx, config, employee_data, disk, net_salary, filepath, trace>>

\* lines 57-70 of send_email: the call, the attachment read back from
\* attachment_path (open raises when there is no such file) and the SMTP
\* session of line 70, one per call.  With SMTP_SERVER None the constructor
\* does not connect and starttls raises.
SendEmailCall(p, r, path) ==
    <<[ev |-> "send_email", idx |-> p, to |-> r[ColEmail].s, attachment_path |-> path]>>
    \o (IF path \in DOMAIN disk.files
           THEN <<[ev |-> "attach", idx |-> p, file_name |-> path,
                   file_data |-> disk.files[path]],
                  [ev |-> "smtp", idx |-> p, host |-> config["SMTP_SERVER"]]>>
           ELSE <<>>)

\* lines 118-132 with send_email running to the end
DispatchOk ==
    /\ pc = "email"
    /\ Dispatches(row)
    /\ filepath \in DOMAIN disk.files
    /\ \A s \in Settings : config[s]
    /\ trace' = trace \o SendEmailCall(index, row, filepath)
                      \o <<[ev |-> "sent", idx |-> index, to |-> row[ColEmail].s,
                            file_data |-> disk.files[filepath]]>>
    /\ index' = NextIndex(index)
    /\ pc' = "loop"
    /\ UNCHANGED <<environ, xlsx, config, employee_data, disk, net_salary, filepath>>

\* lines 118-132 with send_email raising: open of line 64, or the connection,
\* starttls, login or send_message of lines 70-73; the handler of lines 134-135
\* prints the error line
DispatchFail ==
    /\ pc = "email"
    /\ Dispatches(row)
    /\ trace' = trace \o SendEmailCall(index, row, filepath)
                      \o <<Raised(index, "send_email"), ErrorLine(index, row)>>
    /\ index' = NextIndex(index)
    /\ pc' = "loop"
    /\ UNCHANGED <<environ, xlsx, config, employee_data, disk, net_salary, filepath>>

\* the table is exhausted: line 137
Finish ==
    /\ pc = "loop"
    /\ index > employee_data.n
    /\ trace' = Append(trace, [ev |-> "done", idx |-> 0])
    /\ pc' = "done"
    /\ UNCHANGED <<environ, xlsx, config, employee_data, disk, index, net_salary, filepath>>

Next ==
    \/ LoadConfig
    \/ ReadExcel
    \/ StripHeaders
    \/ RenameHeaders
    \/ EnsureRequired
    \/ Coerce
    \/ MakeOutputDir
    \/ RenderOk
    \/ \E point \in {"cell", "replace", "output"} : RenderFail(point)
    \/ DispatchSkip
    \/ DispatchOk
    \/ DispatchFail
    \/ Finish

Spec == Init /\ [][Next]_vars

\* the interpreter runs the script to its end
FairSpec == Spec /\ WF_vars(Next)


----------------------------------------------------------------------------
(* Vocabulary of the properties *)

Loaded == pc \in {"mkdir", "loop", "email", "done"}

Positions == 1..Len(trace)

At(kind) == {k \in Positions : trace[k].ev = kind}

Of(kind, p) == {k \in At(kind) : trace[k].idx = p}

\* the normalized record at a position of the table
Record(p) == RowAt(employee_data, p)

\* the iteration of the record at position p is over
Finished(p) == pc = "done" \/ index > p

\* an e-mail cell that is missing, empty or all blanks
BlankEmail(c) == c.k = "nan" \/ (c.k = "str" /\ \A q \in 1..Len(c.s) : c.s[q] = " ")

\* the source headers that stand for a required column
SourceHeaders(c) == {h \in DOMAIN xlsx.cols : RenameColumn(Strip(h)) = c}

\* the number a two-decimal amount text shows
MoneyValue(t) ==
    LET body == IF Head(t) = "-" THEN Tail(t) ELSE t
        whole == DigitsValue(SubSeq(body, 1, Len(body) - 3))
    IN  IF Head(t) = "-" THEN 0 - whole ELSE whole

----------------------------------------------------------------------------
(* C1 *)

\* C1: an exception raised while rendering or dispatching a record is caught at
\* the record's boundary: the next thing printed is an error line with that
\* record's name and employee id, the loop has moved past the record, the run
\* has not aborted, and in a finished run every later record was taken up after
\* the failure.
FailureIsolation ==
    /\ pc = "crashed" => trace = <<>>
    /\ \A k \in At("raise") :
          LET p == trace[k].idx
          IN  /\ k < Len(trace)
              /\ trace[k + 1].ev = "error"
              /\ trace[k + 1].idx = p
              /\ trace[k + 1].name = CellText(Record(p)[ColName])
              /\ trace[k + 1].id = CellText(Record(p)[ColEmployeeID])
              /\ index > p
              /\ pc \in {"loop", "email", "done"}
              /\ pc = "done" =>
                    \A q \in (p + 1)..employee_data.n :
                        \E j \in Of("progress", q) : j > k

\* a finished run in which one record failed to render and a later one failed to
\* be sent
FailureIsolationWitness ==
    /\ pc = "done"
    /\ \E k, j \in At("raise") :
          /\ trace[k].at # "send_email"
          /\ trace[j].at = "send_email"
          /\ trace[k].idx < trace[j].idx

----------------------------------------------------------------------------
(* C2 *)

\* C2: a record whose page was written is handed to send_email exactly when its
\* e-mail is present and not blank; with a missing, empty or all-blank e-mail
\* it is rendered, not sent, and no error is reported for it; a table without
\* an Email column sends nothing.
DispatchGating ==
    /\ \A k \in At("output") :
          LET p == trace[k].idx
              c == Record(p)[ColEmail]
          IN  Finished(p) =>
                 /\ (Of("send_email", p) # {}) <=> ~BlankEmail(c)
                 /\ BlankEmail(c) => Of("error", p) = {} /\ Of("raise", p) = {}
    /\ SourceHeaders(ColEmail) = {} => At("send_email") = {}

\* a finished run that rendered a record with an all-blank e-mail and sent
\* another record
DispatchGatingWitness ==
    /\ pc = "done"
    /\ \E k \in At("output") :
          /\ Record(trace[k].idx)[ColEmail].k = "str"
          /\ Record(trace[k].idx)[ColEmail].s # <<>>
          /\ BlankEmail(Record(trace[k].idx)[ColEmail])
    /\ At("send_email") # {}

----------------------------------------------------------------------------
(* C3 *)

\* C3: when one of the four mail settings is missing, the run stops before any
\* record is processed: no page is written and no dispatch is attempted.
FailFastOnMissingSetting ==
    environ # Settings => At("output") = {} /\ At("send_email") = {}

----------------------------------------------------------------------------
(* C4 *)

\* a header, with Allowances spelled Allowance
SpelledAllowance(h) == IF h = <<"Allowances">> THEN ColAllowance ELSE h

\* the source table with the header Allowances spelled Allowance
HeadedAllowance(df) ==
    [n |-> df.n,
     cols |-> [c \in {SpelledAllowance(h) : h \in DOMAIN df.cols} |->
                 df.cols[CHOOSE h \in DOMAIN df.cols : SpelledAllowance(h) = c]]]

\* C4: a table whose allowance column is headed Allowances is normalized to the
\* same records as the same table with the column headed Allowance.
AllowancesAlias ==
    (Loaded /\ <<"Allowances">> \in DOMAIN xlsx.cols) =>
        \A c \in Required :
            employee_data.cols[c] = Normalize(HeadedAllowance(xlsx)).cols[c]

----------------------------------------------------------------------------
(* C5 *)

----------------------------------------------------------------------------
(* C6 *)

\* C6: the net salary on every written page is the page's own record's basic
\* salary plus allowance minus deductions, and is shown negative when the
\* deductions exceed basic salary plus allowance.
NetSalaryShown ==
    \A k \in At("output") :
        LET r == Record(trace[k].idx)
            net == trace[k].doc.net
        IN  /\ SubSeq(net, Len(net) - 2, Len(net)) = <<".", "0", "0">>
            /\ MoneyValue(net) = r[ColBasicSalary].n + r[ColAllowance].n - r[ColDeductions].n
            /\ r[ColDeductions].n > r[ColBasicSalary].n + r[ColAllowance].n
                  => Head(net) = "-" /\ MoneyValue(net) < 0

\* two pages written one after the other with different net salaries, the
\* later one negative
NetSalaryWitness ==
    \E k, j \in At("output") :
        /\ k < j
        /\ MoneyValue(trace[k].doc.net) > 0
        /\ MoneyValue(trace[j].doc.net) < 0

----------------------------------------------------------------------------
(* C7 *)

\* the records are taken up in table order, each once, a progress line first
VisitedInOrder ==
    /\ \A k \in At("progress") :
          trace[k].idx = 1 + Cardinality({j \in At("progress") : j < k})
    /\ \A k \in Positions :
          trace[k].ev \notin {"progress", "done"} =>
             \E j \in Of("progress", trace[k].idx) : j < k
    /\ Cardinality(At("progress")) =
          (IF pc = "email" THEN index ELSE IF Loaded THEN index - 1 ELSE 0)

\* the completion line is printed once, last, after every record was taken up
CompletedOnce ==
    /\ Cardinality(At("done")) <= 1
    /\ pc = "done" <=> At("done") # {}
    /\ pc = "done" =>
          /\ trace[Len(trace)].ev = "done"
          /\ \A p \in 1..employee_data.n : Cardinality(Of("progress", p)) = 1

----------------------------------------------------------------------------
(* C8 *)

\* the names of the records whose page was written
RenderedNames == {Record(trace[k].idx)[ColName].s : k \in At("output")}

\* the last page written for a set of positions of the trace
LastDoc(K) == trace[CHOOSE k \in K : \A j \in K : j <= k].doc

\* C8 as stated: in a finished run there are as many output files as distinct
\* names among the rendered records, and the file of a name holds the page of
\* the last rendered record with that name.
OneFilePerName ==
    pc = "done" =>
       /\ Cardinality(DOMAIN disk.files) = Cardinality(RenderedNames)
       /\ \A nm \in RenderedNames :
             /\ FilePath(nm) \in DOMAIN disk.files
             /\ disk.files[FilePath(nm)] =
                   LastDoc({k \in At("output") : Record(trace[k].idx)[ColName].s = nm})

\* the path line 113-114 gives a name: payslips/, the name with every blank
\* turned into an underscore, _Payslip.pdf
IsPathOf(path, nm) ==
    /\ Len(path) = Len(nm) + 6
    /\ SubSeq(path, 1, 2) = <<"payslips", "/">>
    /\ \A q \in 1..Len(nm) : path[q + 2] = (IF nm[q] = " " THEN "_" ELSE nm[q])
    /\ SubSeq(path, Len(nm) + 3, Len(nm) + 6) = <<"_", "Payslip", ".", "pdf">>

\* C8 amended: the path of a page depends on the record's name alone; the
\* output files are the paths of the rendered records, as many as there are
\* distinct paths, and each file holds the page of the last rendered record with
\* that path.
OneFilePerPath ==
    /\ \A k \in At("output") : IsPathOf(trace[k].path, Record(trace[k].idx)[ColName].s)
    /\ DOMAIN disk.files = {trace[k].path : k \in At("output")}
    /\ Cardinality(DOMAIN disk.files) =
          Cardinality({Replace(nm, " ", "_") : nm \in RenderedNames})
    /\ \A f \in DOMAIN disk.files :
          disk.files[f] = LastDoc({k \in At("output") : trace[k].path = f})

\* a finished run that rendered two records of one name, the second page
\* replacing the first
OneFilePerPathWitness ==
    /\ pc = "done"
    /\ \E k, j \in At("output") :
          /\ k < j
          /\ Record(trace[k].idx)[ColName] = Record(trace[j].idx)[ColName]
          /\ disk.files[trace[k].path] = trace[j].doc
          /\ trace[k].doc # trace[j].doc

----------------------------------------------------------------------------
(* C9 *)

\* C9: no record is taken up, rendered or dispatched twice; after a record
\* failed nothing more is done for it; there are no more dispatches than
\* records with a non-blank e-mail; every dispatch has one SMTP session of its
\* own, which sends at most one message.
NoRetries ==
    /\ \A kind \in {"progress", "output", "send_email", "smtp", "sent", "raise"} :
          \A k, j \in At(kind) : trace[k].idx = trace[j].idx => k = j
    /\ \A k \in At("raise") :
          \A j \in Positions : j > k + 1 => trace[j].idx # trace[k].idx
    /\ Loaded =>
          Cardinality(At("send_email")) <=
             Cardinality({p \in 1..employee_data.n : ~BlankEmail(Record(p)[ColEmail])})
    /\ \A k \in At("send_email") : Cardinality(Of("smtp", trace[k].idx)) = 1
    /\ \A k \in At("smtp") : \E j \in Of("send_email", trace[k].idx) : j < k
    /\ \A k \in At("sent") : \E j \in Of("smtp", trace[k].idx) : j < k

\* a finished run in which the dispatch of the first record failed and the
\* second record was sent
NoRetriesWitness ==
    /\ pc = "done"
    /\ \E k \in Of("raise", 1) : trace[k].at = "send_email"
    /\ Of("sent", 2) # {}

----------------------------------------------------------------------------
(* C10 *)

\* C10: send_email is called for a record right after that record's page was
\* written, with the path of that page; the file it attaches holds that page,
\* which shows the record's own id and name, and goes to the record's address;
\* a record whose rendering raised is never dispatched.
OwnDocumentAttached ==
    /\ \A k \in At("send_email") :
          LET p == trace[k].idx
          IN  /\ k > 1
              /\ trace[k - 1].ev = "output"
              /\ trace[k - 1].idx = p
              /\ trace[k].attachment_path = trace[k - 1].path
              /\ trace[k].to = Record(p)[ColEmail].s
              /\ k < Len(trace)
              /\ trace[k + 1].ev = "attach"
              /\ trace[k + 1].idx = p
              /\ trace[k + 1].file_name = trace[k].attachment_path
              /\ trace[k + 1].file_data = trace[k - 1].doc
              /\ trace[k + 1].file_data.id = CellText(Record(p)[ColEmployeeID])
              /\ trace[k + 1].file_data.name = Record(p)[ColName].s
    /\ \A k \in At("sent") :
          \E j \in Of("output", trace[k].idx) :
              trace[k].file_data = trace[j].doc /\ trace[k].to = Record(trace[k].idx)[ColEmail].s
    /\ \A k \in At("raise") :
          trace[k].at # "send_email" => Of("send_email", trace[k].idx) = {}

\* a finished run in which the first record was sent and the second, of the
\* same name, failed to render at pdf.output, the first one's file still lying
\* at its path
OwnDocumentWitness ==
    /\ pc = "done"
    /\ Of("sent", 1) # {}
    /\ \E k \in Of("raise", 2) : trace[k].at = "output"
    /\ filepath \in DOMAIN disk.files
    /\ \E j \in Of("output", 1) : disk.files[filepath] = trace[j].doc

====
